---- MODULE Spec2Model ----
(***************************************************************************)
(* Model of the Minesweeper chat-bot plugin simplebot_minesweeper.         *)
(* The handlers of src/simplebot_minesweeper/__init__.py are the actions.  *)
(* The Board class (game.py) and the DBManager class (db.py) are not part  *)
(* of the available sources; they are modelled from the specification      *)
(* (sections 3, 4 and 6 of spec.md).                                       *)
(***************************************************************************)
EXTENDS Integers, Sequences, FiniteSets, TLC

VARIABLES
    nicks,      \* DB table nicks: set of rows [addr, nick]
    games,      \* DB table games: set of rows [addr, gid, board, score]
    nextGid,    \* id the next chat made by bot.create_group gets
    now,        \* the wall clock read by time.time()
    out,        \* what the last handler did: its reply and its DB accesses
    inp,        \* history: the input of the last handler, where a specification logs it
    brd         \* the Board object the board-level specification works on

vars == <<nicks, games, nextGid, now, out, inp, brd>>

----------------------------------------------------------------------------
(* Bounds of the model *)

MaxGid == 2         \* group chats that bot.create_group may create
MaxTime == 1        \* largest value of the clock
MaxScore == 3       \* largest high score a record may reach

(* Board configuration (fixed for all games) and scoring constant *)
Width == 3
Height == 1
MineCount == 1
ScoreBase == 2

(* Program constants *)
NickMax == 16       \* nick_re: {1,16}
limit == 15         \* mines_top: limit = 15

Addrs == {"p1", "p2"}
Null == <<>>        \* None (and every falsy board value)

Max(a, b) == IF a >= b THEN a ELSE b
Min(a, b) == IF a <= b THEN a ELSE b
Abs(a) == IF a >= 0 THEN a ELSE -a
Rep(c, n) == [i \in 1..n |-> c]

----------------------------------------------------------------------------
(* Characters and the str predicates the handlers use.  A text is a        *)
(* sequence of one-character strings.                                      *)

AlphaChars == {"a", "b", "c", "z", "A"}       \* str.isalpha
DigitChars == {"0", "1", "2", "9"}            \* str.isdigit
NumericChars == {"h"}                         \* "h" stands for U+00BD (one half): isnumeric, not isdigit
OtherChars == {"-", "_", " ", "!"}
Chars == AlphaChars \cup DigitChars \cup NumericChars \cup OtherChars

isalpha(s) == Len(s) > 0 /\ \A i \in 1..Len(s) : s[i] \in AlphaChars
isdigit(s) == Len(s) > 0 /\ \A i \in 1..Len(s) : s[i] \in DigitChars
isalnum(s) ==
    Len(s) > 0 /\ \A i \in 1..Len(s) : s[i] \in AlphaChars \cup DigitChars \cup NumericChars

----------------------------------------------------------------------------
(* Board engine (game.py, modelled from spec.md sections 3 and 4.1).       *)
(* A board is [w, h, mine, adj, state, startedAt]; cells are <<row, col>>.  *)

Cells(w, h) == (0..(h - 1)) \X (0..(w - 1))

Neighbors(w, h, cell) ==
    {n \in Cells(w, h) :
        n # cell /\ Abs(n[1] - cell[1]) <= 1 /\ Abs(n[2] - cell[2]) <= 1}

\* Create(width, height, mineCount, randomSource): mines is the random draw
Create(w, h, mines, t) ==
    [w |-> w, h |-> h,
     mine |-> [c \in Cells(w, h) |-> c \in mines],
     adj |-> [c \in Cells(w, h) |-> Cardinality(Neighbors(w, h, c) \cap mines)],
     state |-> [c \in Cells(w, h) |-> "Hidden"],
     startedAt |-> t]

\* the mine placements Create may draw
MineLayouts(w, h, n) == {m \in SUBSET Cells(w, h) : Cardinality(m) = n}

\* a flood fill that does not stop at cells with mines next to them
RECURSIVE CascadeNoStop(_, _, _)
CascadeNoStop(b, work, seen) ==
    IF work = {} THEN seen
    ELSE LET c == CHOOSE x \in work : TRUE
             nb == {n \in Neighbors(b.w, b.h, c) :
                       ~b.mine[n] /\ b.state[n] = "Hidden" /\ n \notin seen}
         IN CascadeNoStop(b, (work \ {c}) \cup nb, seen \cup {c})

\* flood fill over zero-adjacency cells with an explicit work-list
RECURSIVE Cascade(_, _, _)
Cascade(b, work, seen) ==
    IF work = {} THEN seen
    ELSE LET c == CHOOSE x \in work : TRUE
             nb == IF b.adj[c] = 0
                   THEN {n \in Neighbors(b.w, b.h, c) :
                            ~b.mine[n] /\ b.state[n] = "Hidden" /\ n \notin seen}
                   ELSE {}
         IN Cascade(b, (work \ {c}) \cup nb, seen \cup {c})

\* a Reveal that treats a mine like any other cell and cascades from it
RevealMineCascades(b, cell) ==
    IF b.state[cell] = "Revealed" THEN b
    ELSE LET rs == Cascade(b, {cell}, {})
         IN [b EXCEPT !.state =
                [c \in Cells(b.w, b.h) |-> IF c \in rs THEN "Revealed" ELSE b.state[c]]]

Reveal(b, cell) ==
    IF b.state[cell] = "Revealed" THEN b
    ELSE IF b.mine[cell] THEN [b EXCEPT !.state[cell] = "Revealed"]
    ELSE LET rs == Cascade(b, {cell}, {})
         IN [b EXCEPT !.state =
                [c \in Cells(b.w, b.h) |-> IF c \in rs THEN "Revealed" ELSE b.state[c]]]

\* an Outcome in which Won takes precedence over Lost
OutcomeWonFirst(b) ==
    IF \A c \in Cells(b.w, b.h) : b.mine[c] \/ b.state[c] = "Revealed" THEN "Won"
    ELSE IF \E c \in Cells(b.w, b.h) : b.mine[c] /\ b.state[c] = "Revealed" THEN "Lost"
    ELSE "InProgress"

\* Outcome(): Lost takes precedence, else Won, else InProgress
Outcome(b) ==
    IF \E c \in Cells(b.w, b.h) : b.mine[c] /\ b.state[c] = "Revealed" THEN "Lost"
    ELSE IF \A c \in Cells(b.w, b.h) : b.mine[c] \/ b.state[c] = "Revealed" THEN "Won"
    ELSE "InProgress"

\* Board.result(): 1 won, -1 lost, 0 in progress (as _run_turn reads it)
result(b) ==
    CASE Outcome(b) = "Won" -> 1
      [] Outcome(b) = "Lost" -> -1
      [] OTHER -> 0

\* Score(now): non-negative, non-increasing in the elapsed time
get_score(b, t) == Max(0, ScoreBase - (t - b.startedAt))

\* Export(): <<startedAt, w, h>> followed by one code per cell in row-major
\* order; the code is 2 for a mine plus 1 for a revealed cell
CellAt(w, i) == <<(i - 1) \div w, (i - 1) % w>>

export(b) ==
    <<b.startedAt, b.w, b.h>> \o
    [i \in 1..(b.w * b.h) |->
        (IF b.mine[CellAt(b.w, i)] THEN 2 ELSE 0)
        + (IF b.state[CellAt(b.w, i)] = "Revealed" THEN 1 ELSE 0)]

\* an import that forgets which cells were revealed
BoardAllHidden(s) ==
    LET w == s[2]
        h == s[3]
        code(c) == s[3 + c[1] * w + c[2] + 1]
        mines == {c \in Cells(w, h) : code(c) \div 2 = 1}
    IN [w |-> w, h |-> h,
        mine |-> [c \in Cells(w, h) |-> c \in mines],
        adj |-> [c \in Cells(w, h) |-> Cardinality(Neighbors(w, h, c) \cap mines)],
        state |-> [c \in Cells(w, h) |-> "Hidden"],
        startedAt |-> s[1]]

\* Board(serialized): Import; the adjacency counts are recomputed
Board(s) ==
    LET w == s[2]
        h == s[3]
        code(c) == s[3 + c[1] * w + c[2] + 1]
        mines == {c \in Cells(w, h) : code(c) \div 2 = 1}
    IN [w |-> w, h |-> h,
        mine |-> [c \in Cells(w, h) |-> c \in mines],
        adj |-> [c \in Cells(w, h) |-> Cardinality(Neighbors(w, h, c) \cap mines)],
        state |-> [c \in Cells(w, h) |-> IF code(c) % 2 = 1 THEN "Revealed" ELSE "Hidden"],
        startedAt |-> s[1]]

\* str(b), RenderCurrent: -1 for a hidden cell, the adjacency count for a
\* revealed one (9 for a revealed mine)
RenderCurrent(b) ==
    [i \in 1..(b.w * b.h) |->
        IF b.state[CellAt(b.w, i)] = "Hidden" THEN -1
        ELSE IF b.mine[CellAt(b.w, i)] THEN 9
        ELSE b.adj[CellAt(b.w, i)]]

\* b.reveal(result), RenderFull: every cell disclosed; mines drawn 9 on a
\* win and 10 on a loss
reveal(b, res) ==
    [i \in 1..(b.w * b.h) |->
        IF b.mine[CellAt(b.w, i)] THEN (IF res = 1 THEN 9 ELSE 10)
        ELSE b.adj[CellAt(b.w, i)]]

----------------------------------------------------------------------------
(* Move parser (spec.md section 4.2): one letter selects the column,       *)
(* case-insensitively, one digit selects the row (rows are numbered from   *)
(* 1); either order.                                                       *)

LetterIndex(c) ==
    CASE c \in {"a", "A"} -> 0
      [] c = "b" -> 1
      [] c = "c" -> 2
      [] OTHER -> 25

DigitValue(c) ==
    CASE c = "0" -> 0
      [] c = "1" -> 1
      [] c = "2" -> 2
      [] OTHER -> 9

\* Parse(token): <<row, col>>, or <<>> when the token is malformed or the
\* coordinate is outside the grid (InvalidToken / OutOfBounds)
Parse(text, w, h) ==
    LET wellFormed ==
            /\ Len(text) = 2
            /\ \/ text[1] \in AlphaChars /\ text[2] \in DigitChars
               \/ text[1] \in DigitChars /\ text[2] \in AlphaChars
        letter == IF text[1] \in AlphaChars THEN text[1] ELSE text[2]
        digit == IF text[1] \in AlphaChars THEN text[2] ELSE text[1]
        cell == <<DigitValue(digit) - 1, LetterIndex(letter)>>
    IN IF wellFormed /\ cell \in Cells(w, h) THEN cell ELSE <<>>

\* Board.move(token): ok = FALSE stands for the ValueError it raises
move(b, text) ==
    LET cell == Parse(text, b.w, b.h)
    IN IF cell = <<>> THEN [ok |-> FALSE, board |-> b]
       ELSE [ok |-> TRUE, board |-> Reveal(b, cell)]

----------------------------------------------------------------------------
(* Storage collaborator (db.py, modelled from spec.md sections 3 and 6).   *)
(* Each operator takes the table it works on and returns the rows found    *)
(* or the table after the write.                                           *)

get_game_by_addr(gms, addr) == {g \in gms : g.addr = addr}
get_game_by_gid(gms, gid) == {g \in gms : g.gid = gid}

\* CreateGame: a new record starts with high score 0
add_game(gms, addr, gid, board) ==
    gms \cup {[addr |-> addr, gid |-> gid, board |-> board, score |-> 0]}

set_board(gms, addr, board) ==
    {IF g.addr = addr THEN [g EXCEPT !.board = board] ELSE g : g \in gms}

\* SetGameResult
set_game(gms, addr, board, score) ==
    {IF g.addr = addr THEN [g EXCEPT !.board = board, !.score = score] ELSE g : g \in gms}

delete_game(gms, addr) == {g \in gms : g.addr # addr}

\* GetNick: the rows holding the nick of addr (none: no nick)
get_nick(nks, addr) == {n \in nks : n.addr = addr}
\* FindAddrByNick
get_addr(nks, nick) == {n \in nks : n.nick = nick}
set_nick(nks, addr, nick) ==
    {n \in nks : n.addr # addr} \cup {[addr |-> addr, nick |-> nick]}

----------------------------------------------------------------------------
(* _run_turn and the handlers                                              *)

NoOut ==
    [op |-> "init", prefix |-> "", kind |-> "none", score |-> -1, render |-> <<>>,
     nick |-> <<>>, lines |-> <<>>, fwd |-> FALSE, read |-> FALSE]

\* lines 184-185: the score a win persists and reports
WinScoreMax(score, h) == Max(score, h)
WinScoreFresh(score, h) == score
WinScore(score, h) == IF score <= h THEN h + 1 ELSE score

\* line 186: db.set_game(g["addr"], None, score)
OnWonKeepBoard(gms, addr, score) ==
    {IF g.addr = addr THEN [g EXCEPT !.score = score] ELSE g : g \in gms}
OnWon(gms, addr, score) == set_game(gms, addr, Null, score)

\* line 189: db.set_board(g["addr"], None)
OnLostKeep(gms, addr) == gms
OnLost(gms, addr) == set_board(gms, addr, Null)

\* _run_turn(gid) at time t: the games table after it and the text it returns
run_turn(gms, gid, t) ==
    LET g == CHOOSE x \in get_game_by_gid(gms, gid) : TRUE
    IN IF g.board = Null
       THEN [games |-> gms, kind |-> "noactive", score |-> -1, render |-> <<>>]
       ELSE LET b == Board(g.board)
                res == result(b)
            IN IF res = 1
               THEN LET score == WinScore(get_score(b, t), g.score)
                    IN [games |-> OnWon(gms, g.addr, score), kind |-> "won",
                        score |-> score, render |-> reveal(b, res)]
               ELSE IF res = -1
               THEN [games |-> OnLost(gms, g.addr), kind |-> "lost",
                     score |-> -1, render |-> reveal(b, res)]
               ELSE [games |-> gms, kind |-> "board",
                     score |-> -1, render |-> RenderCurrent(b)]

\* lines 44-49: the texts filter_messages lets through
FilterPassNoDigitTest(text) == Len(text) = 2 /\ isalnum(text) /\ ~isalpha(text)
FilterPass(text) ==
    ~(Len(text) # 2 \/ ~isalnum(text) \/ isalpha(text) \/ isdigit(text))

\* lines 53-54: the reply to a move when there is no active board (a bare return)
NoBoardReplyPrompt == "noactive"
NoBoardReply == "none"

\* lines 61-63: what the ValueError handler persists (nothing)
OnInvalidMoveReset(gms, addr) == set_board(gms, addr, Null)
OnInvalidMove(gms, addr) == gms

\* line 73: not db.get_nick(player.addr)
NeedsNickNever(nks, addr) == FALSE
NeedsNick(nks, addr) == get_nick(nks, addr) = {}

\* line 88: the board mines_play persists over the record's old one
RestartBoardIfIdle(old, fresh) == IF old = Null THEN fresh ELSE old
RestartBoard(old, fresh) == fresh

\* line 20: nick_re.match(new_nick)
NickChars == AlphaChars \cup DigitChars \cup {"-", "_"}
nick_re_match(s) ==
    Len(s) \in 1..NickMax /\ \A i \in 1..Len(s) : s[i] \in NickChars

\* line 121: " ".join(payload.split())
RECURSIVE split(_, _)
split(s, cur) ==
    IF s = <<>> THEN (IF cur = <<>> THEN <<>> ELSE <<cur>>)
    ELSE IF Head(s) = " "
         THEN (IF cur = <<>> THEN <<>> ELSE <<cur>>) \o split(Tail(s), <<>>)
         ELSE split(Tail(s), Append(cur, Head(s)))

RECURSIVE join(_)
join(ws) ==
    IF ws = <<>> THEN <<>>
    ELSE IF Len(ws) = 1 THEN ws[1]
    ELSE ws[1] \o <<" ">> \o join(Tail(ws))

----------------------------------------------------------------------------
(* Inputs *)

Bot == "bot"
Chats == 0..MaxGid          \* 0: a chat that is no game group
Contacts == Addrs \cup {Bot}

\* message texts: moves on the board, rejected coordinates, filtered texts
Texts ==
    { <<"a", "1">>, <<"b", "1">>, <<"c", "1">>, <<"1", "a">>, <<"A", "1">>,
      <<"z", "1">>, <<"a", "9">>, <<"a", "0">>, <<"h", "1">>, <<"h", "h">>,
      <<"a", "b">>, <<"1", "1">>, <<"a", "-">>, <<"a">>, <<"a", "1", "b">>, <<>> }
PlayTexts ==
    { <<"a", "1">>, <<"b", "1">>, <<"c", "1">>, <<"1", "a">>, <<"a", "9">>, <<"a", "b">> }

\* /mines_nick payloads
Payloads ==
    { <<>>, <<"a">>, <<"b", "_", "1">>, <<" ", "a", " ">>, <<"a", " ", "b">>, <<"a", "!">>,
      Rep("a", NickMax - 1), Rep("a", NickMax), Rep("a", NickMax + 1) }
PlayPayloads == { <<"a">> }
DuelPayloads == { <<"a">>, <<"b">> }

----------------------------------------------------------------------------
(* Actions *)

Init ==
    /\ nicks = {}
    /\ games = {}
    /\ nextGid = 1
    /\ now = 0
    /\ out = NoOut
    /\ inp = <<>>
    /\ brd = Null

\* time passes
Tick ==
    /\ now < MaxTime
    /\ now' = now + 1
    /\ out' = [NoOut EXCEPT !.op = "tick"]
    /\ UNCHANGED <<nicks, games, nextGid>>

\* a removal handler without the test of line 35
member_removed_any(chat, contact) ==
    LET game == get_game_by_gid(games, chat)
        hit == game # {}
    IN /\ games' = IF hit THEN delete_game(games, (CHOOSE g \in game : TRUE).addr)
                   ELSE games
       /\ out' = [NoOut EXCEPT !.op = "member_removed", !.read = TRUE,
                               !.kind = IF hit THEN (IF contact # Bot THEN "left" ELSE "deleted")
                                        ELSE "none"]
       /\ UNCHANGED <<nicks, nextGid, now>>

deltabot_member_removed(chat, contact) ==
    LET game == get_game_by_gid(games, chat)
        hit == game # {} /\ \E g \in game : contact \in {Bot, g.addr}
    IN /\ games' = IF hit THEN delete_game(games, (CHOOSE g \in game : TRUE).addr)
                   ELSE games
       /\ out' = [NoOut EXCEPT !.op = "member_removed", !.read = TRUE,
                               !.kind = IF hit THEN (IF contact # Bot THEN "left" ELSE "deleted")
                                        ELSE "none"]
       /\ UNCHANGED <<nicks, nextGid, now>>

filter_messages(chat, text) ==
    IF ~FilterPass(text)
    THEN /\ out' = [NoOut EXCEPT !.op = "filter"]
         /\ UNCHANGED <<nicks, games, nextGid, now>>
    ELSE \E game \in {get_game_by_gid(games, chat)} :
         IF game = {} \/ \E g \in game : g.board = Null
         THEN /\ out' = [NoOut EXCEPT !.op = "filter",
                                       !.read = TRUE, !.kind = NoBoardReply]
              /\ UNCHANGED <<nicks, games, nextGid, now>>
         ELSE \E g \in game : \E m \in {move(Board(g.board), text)} :
              IF ~m.ok
              THEN /\ games' = OnInvalidMove(games, g.addr)
                   /\ out' = [NoOut EXCEPT !.op = "filter",
                                  !.read = TRUE, !.fwd = TRUE, !.kind = "invalid"]
                   /\ UNCHANGED <<nicks, nextGid, now>>
              ELSE \E t \in {run_turn(set_board(games, g.addr, export(m.board)),
                                      chat, now)} :
                   /\ \A r \in t.games : r.score <= MaxScore
                   /\ games' = t.games
                   /\ out' = [NoOut EXCEPT !.op = "filter",
                                  !.read = TRUE, !.fwd = TRUE, !.kind = t.kind,
                                  !.score = t.score, !.render = t.render]
                   /\ UNCHANGED <<nicks, nextGid, now>>

mines_play(sender) ==
    IF NeedsNick(nicks, sender)
    THEN /\ out' = [NoOut EXCEPT !.op = "mines_play", !.read = TRUE, !.kind = "neednick"]
         /\ UNCHANGED <<nicks, games, nextGid, now>>
    ELSE \E mines \in MineLayouts(Width, Height, MineCount) :
         \E game \in {get_game_by_addr(games, sender)} :
         \E fresh \in {export(Create(Width, Height, mines, now))} :
         IF game = {}
         THEN \E t \in {run_turn(add_game(games, sender, nextGid, fresh), nextGid, now)} :
              /\ nextGid <= MaxGid
              /\ nextGid' = nextGid + 1
              /\ games' = t.games
              /\ out' = [NoOut EXCEPT !.op = "mines_play", !.read = TRUE,
                             !.prefix = "hello", !.kind = t.kind,
                             !.score = t.score, !.render = t.render]
              /\ UNCHANGED <<nicks, now>>
         ELSE \E g \in game :
              \E t \in {run_turn(set_board(games, g.addr, RestartBoard(g.board, fresh)),
                                 g.gid, now)} :
              /\ games' = t.games
              /\ out' = [NoOut EXCEPT !.op = "mines_play", !.read = TRUE,
                             !.prefix = "started", !.kind = t.kind,
                             !.score = t.score, !.render = t.render]
              /\ UNCHANGED <<nicks, nextGid, now>>

\* a /mines_repeat that drops the board it has shown
mines_repeat_clearing(sender) ==
    \E game \in {get_game_by_addr(games, sender)} :
    IF game # {}
    THEN \E g \in game : \E t \in {run_turn(games, g.gid, now)} :
         /\ games' = set_board(t.games, g.addr, Null)
         /\ out' = [NoOut EXCEPT !.op = "mines_repeat", !.read = TRUE,
                        !.kind = t.kind, !.score = t.score, !.render = t.render]
         /\ UNCHANGED <<nicks, nextGid, now>>
    ELSE /\ out' = [NoOut EXCEPT !.op = "mines_repeat", !.read = TRUE,
                        !.kind = "noactive"]
         /\ UNCHANGED <<nicks, games, nextGid, now>>

mines_repeat(sender) ==
    \E game \in {get_game_by_addr(games, sender)} :
    IF game # {}
    THEN \E g \in game : \E t \in {run_turn(games, g.gid, now)} :
         /\ games' = t.games
         /\ out' = [NoOut EXCEPT !.op = "mines_repeat", !.read = TRUE,
                        !.kind = t.kind, !.score = t.score, !.render = t.render]
         /\ UNCHANGED <<nicks, nextGid, now>>
    ELSE /\ out' = [NoOut EXCEPT !.op = "mines_repeat", !.read = TRUE,
                        !.kind = "noactive"]
         /\ UNCHANGED <<nicks, games, nextGid, now>>

\* line 127: db.get_addr(new_nick) finds an address
NickTakenNever(nks, nick) == FALSE
NickTaken(nks, nick) == get_addr(nks, nick) # {}

mines_nick(sender, payload) ==
    LET new_nick == join(split(payload, <<>>))
        cur == get_nick(nicks, sender)
    IN IF payload # <<>>
       THEN IF ~nick_re_match(new_nick)
            THEN /\ out' = [NoOut EXCEPT !.op = "mines_nick", !.kind = "nick_invalid"]
                 /\ UNCHANGED <<nicks, games, nextGid, now>>
            ELSE IF NickTaken(nicks, new_nick)
            THEN /\ out' = [NoOut EXCEPT !.op = "mines_nick", !.read = TRUE,
                                !.kind = "nick_taken"]
                 /\ UNCHANGED <<nicks, games, nextGid, now>>
            ELSE /\ nicks' = set_nick(nicks, sender, new_nick)
                 /\ out' = [NoOut EXCEPT !.op = "mines_nick", !.read = TRUE,
                                !.kind = "nick_set", !.nick = new_nick]
                 /\ UNCHANGED <<games, nextGid, now>>
       ELSE /\ out' = [NoOut EXCEPT !.op = "mines_nick", !.read = TRUE,
                           !.kind = "nick_show",
                           !.nick = IF cur = {} THEN <<>> ELSE (CHOOSE n \in cur : TRUE).nick]
            /\ UNCHANGED <<nicks, games, nextGid, now>>

\* ListGames: the orders in which the store may list the rows, score descending
RECURSIVE get_games(_)
get_games(gms) ==
    IF gms = {} THEN {<<>>}
    ELSE UNION {{<<g>> \o rest : rest \in get_games(gms \ {g})} :
                   g \in {x \in gms : \A y \in gms : x.score >= y.score}}

NickOf(nks, addr) ==
    IF get_nick(nks, addr) = {} THEN <<>> ELSE (CHOOSE n \in get_nick(nks, addr) : TRUE).nick

\* a scoreboard that prints the predecessor as soon as the requester is
\* below the top
TopLinesPrevAlways(lst, game, nks, lim) ==
    LET line(n, g) == <<n, NickOf(nks, g.addr), g.score>>
        top == [n \in 1..Min(lim, Len(lst)) |-> line(n, lst[n])]
        pos == IF game = {} THEN -1
               ELSE (CHOOSE i \in 1..Len(lst) : lst[i] \in game) - 1
        prev == IF pos >= lim THEN <<line(pos, lst[pos])>> ELSE <<>>
        next == IF pos < Len(lst) - 1 THEN <<line(pos + 2, lst[pos + 2])>> ELSE <<>>
    IN IF game # {} /\ pos >= lim
       THEN top \o prev \o <<line(pos + 1, lst[pos + 1])>> \o next
       ELSE top

\* lines 151-169: the scoreboard lines <<rank, nick, score>> printed for the
\* listing lst; game is the requester's row, if any
TopLines(lst, game, nks, lim) ==
    LET line(n, g) == <<n, NickOf(nks, g.addr), g.score>>
        top == [n \in 1..Min(lim, Len(lst)) |-> line(n, lst[n])]
        pos == IF game = {} THEN -1
               ELSE (CHOOSE i \in 1..Len(lst) : lst[i] \in game) - 1
        prev == IF pos > lim THEN <<line(pos, lst[pos])>> ELSE <<>>
        next == IF pos < Len(lst) - 1 THEN <<line(pos + 2, lst[pos + 2])>> ELSE <<>>
    IN IF game # {} /\ pos >= lim
       THEN top \o prev \o <<line(pos + 1, lst[pos + 1])>> \o next
       ELSE top

mines_top_clearing(sender) ==
    /\ out' = [NoOut EXCEPT !.op = "mines_top", !.read = TRUE, !.kind = "top"]
    /\ games' = set_board(games, sender, Null)
    /\ UNCHANGED <<nicks, nextGid, now>>

mines_top(sender) ==
    \E lst \in get_games(games) :
        LET game == get_game_by_addr(games, sender)
            listed == IF game = {} THEN SubSeq(lst, 1, Min(limit, Len(lst))) ELSE lst
        IN /\ out' = [NoOut EXCEPT !.op = "mines_top", !.read = TRUE, !.kind = "top",
                          !.lines = TopLines(listed, game, nicks, limit)]
           /\ UNCHANGED <<nicks, games, nextGid, now>>

\* The bot at play with one nick to take, so with one player at a time: every
\* handler; the sender of /mines_play and of /mines_repeat, the chat of a
\* message and the chat and the contact of a removal are logged.
Next ==
    \/ Tick /\ inp' = <<>> /\ UNCHANGED brd
    \/ \E chat \in Chats, contact \in Contacts :
          deltabot_member_removed(chat, contact) /\ inp' = <<chat, contact>> /\ UNCHANGED brd
    \/ \E chat \in Chats, text \in PlayTexts : filter_messages(chat, text) /\ inp' = <<chat>> /\ UNCHANGED brd
    \/ \E sender \in Addrs : mines_play(sender) /\ inp' = <<sender>> /\ UNCHANGED brd
    \/ \E sender \in Addrs : mines_repeat(sender) /\ inp' = <<sender>> /\ UNCHANGED brd
    \/ \E sender \in Addrs, payload \in PlayPayloads :
          mines_nick(sender, payload) /\ inp' = <<>> /\ UNCHANGED brd
    \/ \E sender \in Addrs : mines_top(sender) /\ inp' = <<>> /\ UNCHANGED brd

Spec == Init /\ [][Next]_vars

\* Two players at play with the clock stopped; the sender of /mines_play is
\* logged.
NextDuel ==
    \/ \E chat \in Chats, text \in PlayTexts : filter_messages(chat, text) /\ inp' = <<>> /\ UNCHANGED brd
    \/ \E sender \in Addrs : mines_play(sender) /\ inp' = <<sender>> /\ UNCHANGED brd
    \/ \E sender \in Addrs : mines_repeat(sender) /\ inp' = <<>> /\ UNCHANGED brd
    \/ \E sender \in Addrs, payload \in DuelPayloads :
          mines_nick(sender, payload) /\ inp' = <<>> /\ UNCHANGED brd
    \/ \E sender \in Addrs : mines_top(sender) /\ inp' = <<>> /\ UNCHANGED brd

SpecDuel == Init /\ [][NextDuel]_vars

\* The message filter on every text; the chat and the text are logged.
NextFilter ==
    \/ \E sender \in Addrs, payload \in PlayPayloads :
          mines_nick(sender, payload) /\ inp' = <<>> /\ UNCHANGED brd
    \/ \E sender \in Addrs : mines_play(sender) /\ inp' = <<>> /\ UNCHANGED brd
    \/ \E chat \in Chats, text \in Texts :
          filter_messages(chat, text) /\ inp' = <<chat, text>> /\ UNCHANGED brd

SpecFilter == Init /\ [][NextFilter]_vars

\* The nick registry on every payload; the sender and the payload are logged.
NextNick ==
    \/ \E sender \in Addrs, payload \in Payloads :
          mines_nick(sender, payload) /\ inp' = <<sender, payload>> /\ UNCHANGED brd
    \/ \E sender \in Addrs : mines_play(sender) /\ inp' = <<>> /\ UNCHANGED brd

SpecNick == Init /\ [][NextNick]_vars

----------------------------------------------------------------------------
(* The scoreboard on its own: a table of finished games longer than the    *)
(* scoreboard, every player and a stranger asking for it.  Players are     *)
(* numbered here; the scores below the top are tied two by two.            *)

MaxGames == 18      \* largest number of game records in the table

\* the nick of player i: two letters
TopNick(i) ==
    LET abc == <<"a", "b", "c", "z", "A">>
    IN <<abc[((i - 1) \div 5) + 1], abc[((i - 1) % 5) + 1]>>

InitTop ==
    \E n \in 0..MaxGames :
       /\ nicks = {[addr |-> i, nick |-> TopNick(i)] : i \in 1..n}
       /\ games = {[addr |-> i, gid |-> i, board |-> Null,
                     score |-> IF i < limit THEN 2 * MaxGames - i ELSE (n - i) \div 2] :
                      i \in 1..n}
       /\ nextGid = n + 1
       /\ now = 0
       /\ out = NoOut
       /\ inp = <<>>
       /\ brd = Null

\* the sender is logged; sender 0 has no game record
NextTop ==
    \E sender \in 0..MaxGames : mines_top(sender) /\ inp' = <<sender>> /\ UNCHANGED brd

SpecTop == InitTop /\ [][NextTop]_vars

----------------------------------------------------------------------------
(* The board engine on its own: a board is created and then revealed cell  *)
(* by cell, in any order and also after the game has ended, and exported   *)
(* and imported in between.                                                *)

MaxMines == 1       \* largest mineCount given to Create

\* <<width, height>> of the boards created: the boards of the bot, a square
\* one and an oblong one
BoardSizes == {<<Width, Height>>, <<3, 3>>, <<4, 2>>}

\* what Create may return for these arguments when the clock shows MaxTime
Boards ==
    UNION {{Create(d[1], d[2], mines, MaxTime) :
               mines \in UNION {MineLayouts(d[1], d[2], n) :
                                   n \in 0..Min(MaxMines, d[1] * d[2] - 1)}} :
              d \in BoardSizes}

InitBoard ==
    /\ nicks = {}
    /\ games = {}
    /\ nextGid = 1
    /\ now = 0
    /\ out = NoOut
    /\ inp = <<>>
    /\ brd \in Boards

\* Reveal(row, col) on the board; the outcome it returns is the reply
BoardReveal(cell) ==
    /\ brd' = Reveal(brd, cell)
    /\ out' = [NoOut EXCEPT !.op = "Reveal", !.kind = Outcome(brd')]
    /\ UNCHANGED <<nicks, games, nextGid, now>>

\* the board is exported and the export imported in its place
BoardReload ==
    /\ brd' = Board(export(brd))
    /\ out' = [NoOut EXCEPT !.op = "Import"]
    /\ UNCHANGED <<nicks, games, nextGid, now>>

\* the cell revealed is logged
NextBoard ==
    \/ \E cell \in Cells(brd.w, brd.h) : BoardReveal(cell) /\ inp' = <<cell>>
    \/ BoardReload /\ inp' = <<>>

SpecBoard == InitBoard /\ [][NextBoard]_vars

----------------------------------------------------------------------------
(* Properties *)

persisted == <<nicks, games, nextGid>>

\* the board of row g has no revealed cell and is in progress
IsFresh(g) ==
    /\ g.board # Null
    /\ \A c \in Cells(Width, Height) : Board(g.board).state[c] = "Hidden"
    /\ Outcome(Board(g.board)) = "InProgress"

SomeRevealed(g) ==
    g.board # Null /\ \E c \in Cells(Width, Height) : Board(g.board).state[c] = "Revealed"

\* C1: a step in which _run_turn finds the persisted board Won, with fresh
\* score s and stored high score h, persists s if s > h and h + 1 if s <= h,
\* and reports that value in the reply.
C1_ScoreUpdateRule ==
    [][out'.kind = "won" =>
          \E g \in games : \E g2 \in games' :
              /\ g2.addr = g.addr /\ g.board # Null /\ g2.board = Null
              /\ LET s == get_score(Board(g.board), now)
                     h == g.score
                 IN /\ g2.score = (IF s > h THEN s ELSE h + 1)
                    /\ out'.score = g2.score]_vars

\* a win whose fresh score did not exceed the stored high score
C1_Witness == out.kind = "won" /\ out.score = ScoreBase + 1

\* C2: for a record that is not deleted the high score never decreases, it
\* strictly increases in a step that wins the record's game and is unchanged
\* by every other step.
C2_MonotonicScore ==
    [][\A g \in games : \A g2 \in games' :
          (g2.addr = g.addr /\ g2.gid = g.gid) =>
              IF out'.kind = "won" /\ g.board # Null /\ g2.board = Null
              THEN g2.score > g.score
              ELSE g2.score = g.score]_vars

\* a game lost by a player who had won before: the high score is kept
C2_Witness == out.kind = "lost" /\ \E g \in games : g.score > 0

\* C3: between handler invocations every record's board is null or a board
\* whose outcome is InProgress.
C3_NoTerminalBoardPersisted ==
    \A g \in games : g.board = Null \/ Outcome(Board(g.board)) = "InProgress"

\* a move has just ended a game
C3_Witness ==
    out.op = "filter" /\ out.kind \in {"won", "lost"} /\ \E g \in games : g.board = Null

\* the claimed shape of a move token: exactly two alphanumeric characters,
\* neither all alphabetic nor all digits
TokenShape(text) ==
    /\ Len(text) = 2
    /\ \A i \in 1..Len(text) : text[i] \in AlphaChars \cup DigitChars \cup NumericChars
    /\ \E i \in 1..Len(text) : text[i] \notin AlphaChars
    /\ \E i \in 1..Len(text) : text[i] \notin DigitChars

\* chat is the group of a record with a board
ActiveBoard(gms, chat) == \E g \in gms : g.gid = chat /\ g.board # Null

\* C4: when the board rejects the forwarded token (malformed or out of
\* bounds), filter_messages persists nothing and replies "Invalid move".
C4_InvalidMoveUnchanged ==
    [][(out'.op = "filter" /\ out'.fwd /\ Parse(inp'[2], Width, Height) = <<>>) =>
          (out'.kind = "invalid" /\ UNCHANGED persisted)]_vars

\* an out-of-bounds token sent into a game with revealed cells
C4_Witness ==
    /\ out.op = "filter" /\ out.kind = "invalid" /\ inp[2] = <<"a", "9">>
    /\ \E g \in games : g.gid = inp[1] /\ SomeRevealed(g)

\* C5 as claimed: a move attempted when the chat has no active board leaves
\* the persisted state unchanged and is answered with the prompt to start a
\* game.
C5_NoActiveGamePrompt ==
    [][(out'.op = "filter" /\ TokenShape(inp'[2]) /\ ~ActiveBoard(games, inp'[1])) =>
          (UNCHANGED persisted /\ out'.kind = "noactive")]_vars

\* C5 as amended: a move attempted when the chat has no active board leaves
\* the persisted state unchanged and gets no reply at all.
C5_NoActiveGameIgnored ==
    [][(out'.op = "filter" /\ TokenShape(inp'[2]) /\ ~ActiveBoard(games, inp'[1])) =>
          (UNCHANGED persisted /\ out'.kind = "none" /\ ~out'.fwd)]_vars

\* a move token sent to the group of a record whose board is null
C5_Witness ==
    /\ out.op = "filter" /\ out.kind = "none" /\ TokenShape(inp[2])
    /\ \E g \in games : g.gid = inp[1] /\ g.board = Null

\* C6: filter_messages forwards a text to Board.move only if it has the
\* token shape; for every other text it reads nothing, writes nothing and
\* adds no reply.
C6_InputFilter ==
    [][out'.op = "filter" =>
          /\ out'.fwd => TokenShape(inp'[2])
          /\ ~TokenShape(inp'[2]) =>
                (~out'.read /\ out'.kind = "none" /\ UNCHANGED persisted)]_vars

\* an all-digit text sent into a group with a game in progress
C6_Witness ==
    /\ out.op = "filter" /\ inp[2] = <<"1", "1">> /\ ~out.fwd
    /\ ActiveBoard(games, inp[1])

\* C7: mines_play by a sender with a nick leaves that sender's record with a
\* fresh board: a new record in a new group when the sender had none, else
\* the old record with its board replaced and its group and score unchanged.
C7_StartGame ==
    [][(out'.op = "mines_play" /\ get_nick(nicks, inp'[1]) # {}) =>
          \E g2 \in games' :
              /\ g2.addr = inp'[1]
              /\ IsFresh(g2)
              /\ IF get_game_by_addr(games, inp'[1]) = {}
                 THEN /\ get_game_by_gid(games, g2.gid) = {}
                      /\ g2.gid = nextGid /\ nextGid' = nextGid + 1
                      /\ games' = games \cup {g2}
                 ELSE \E g \in games :
                      /\ g.addr = inp'[1]
                      /\ g2.gid = g.gid /\ g2.score = g.score
                      /\ games' = (games \ {g}) \cup {g2}
                      /\ nextGid' = nextGid]_vars

\* a restart by a player with a high score
C7_Witness ==
    /\ out.op = "mines_play" /\ out.prefix = "started"
    /\ \E g \in games : g.addr = inp[1] /\ g.score > 0 /\ IsFresh(g)

\* C8: mines_play by a sender without a nick changes no persisted state and
\* asks for a nick; every game record belongs to an address with a nick.
C8_NickRequired ==
    [][/\ (out'.op = "mines_play" /\ get_nick(nicks, inp'[1]) = {}) =>
              (out'.kind = "neednick" /\ UNCHANGED persisted)
       /\ \A g \in games' : get_nick(nicks', g.addr) # {}]_vars

\* a sender without a nick is refused while another player has a record
C8_Witness ==
    /\ out.op = "mines_play" /\ out.kind = "neednick"
    /\ get_nick(nicks, inp[1]) = {} /\ games # {}

\* C9 as claimed: a non-empty payload is stored (normalized) only if it has
\* only letters, numbers, "-" and "_", is less than 16 characters long and is
\* not taken; otherwise the reply is invalid-nick or already-taken and the
\* stored nicks are unchanged.
C9_NickValidation ==
    [][(out'.op = "mines_nick" /\ inp'[2] # <<>>) =>
          LET nick == join(split(inp'[2], <<>>))
              valid == /\ Len(nick) >= 1
                       /\ Len(nick) < NickMax
                       /\ \A i \in 1..Len(nick) : nick[i] \in NickChars
                       /\ \A n \in nicks : n.nick # nick
          IN IF valid
             THEN nicks' = set_nick(nicks, inp'[1], nick)
             ELSE out'.kind \in {"nick_invalid", "nick_taken"} /\ nicks' = nicks]_vars

\* C10: mines_top changes no game record, board, score or nick.
C10_TopReadOnly ==
    [][out'.op = "mines_top" => UNCHANGED persisted]_vars

\* the scoreboard is requested while a game is in progress
C10_Witness ==
    out.op = "mines_top" /\ Len(out.lines) >= 2 /\ \E g \in games : SomeRevealed(g)

\* the reply kind _run_turn gives for a board with this outcome
KindOf(outcome) ==
    CASE outcome = "Won" -> "won"
      [] outcome = "Lost" -> "lost"
      [] OTHER -> "board"

\* C11: for every board b reached by Create and Reveal calls, Import(Export(b))
\* has the cell states, mine layout, adjacency counts and startedAt of b, every
\* Reveal gives the same board on both, and _run_turn, reading the export of b
\* from the record, computes the outcome and the render of b itself.
C11_RoundTrip ==
    \A r \in {Board(export(brd))} :
    \A t \in {run_turn({[addr |-> "p1", gid |-> 1, board |-> export(brd), score |-> 0]},
                       1, now)} :
       /\ r.state = brd.state /\ r.mine = brd.mine
       /\ r.adj = brd.adj /\ r.startedAt = brd.startedAt
       /\ \A cell \in Cells(brd.w, brd.h) :
             \A x \in {Reveal(r, cell)} : \A y \in {Reveal(brd, cell)} :
                x = y /\ Outcome(x) = Outcome(y)
       /\ t.kind = KindOf(Outcome(brd))
       /\ t.render = IF Outcome(brd) = "InProgress" THEN RenderCurrent(brd)
                     ELSE reveal(brd, result(brd))

\* a 3 x 3 board in progress with revealed cells has been exported and imported
C11_Witness ==
    /\ out.op = "Import" /\ brd.w = 3 /\ brd.h = 3 /\ brd.startedAt > 0
    /\ Outcome(brd) = "InProgress"
    /\ \E c \in Cells(brd.w, brd.h) : brd.state[c] = "Revealed" /\ brd.adj[c] > 0
    /\ \E c \in Cells(brd.w, brd.h) : brd.mine[c]

\* C12: a Reveal of a mine cell yields the outcome Lost and does not cascade:
\* afterwards that cell is Revealed and every other cell is in the state it
\* was in, so a Hidden mine is the one cell that changed.
C12_MineRevealLost ==
    [][(out'.op = "Reveal" /\ brd.mine[inp'[1]]) =>
          /\ out'.kind = "Lost" /\ Outcome(brd') = "Lost"
          /\ brd'.state[inp'[1]] = "Revealed"
          /\ \A c \in Cells(brd.w, brd.h) : c # inp'[1] => brd'.state[c] = brd.state[c]
          /\ brd'.mine = brd.mine /\ brd'.adj = brd.adj]_vars

\* the mine of a 3 x 3 board, with no mine next to it, was the first cell
\* revealed
C12_Witness ==
    /\ out.op = "Reveal" /\ out.kind = "Lost" /\ brd.w = 3 /\ brd.h = 3
    /\ brd.mine[inp[1]] /\ brd.adj[inp[1]] = 0
    /\ \A c \in Cells(brd.w, brd.h) : brd.state[c] = "Revealed" <=> c = inp[1]

\* the zero-adjacency cells connected to the cells of z by 8-neighbour steps
\* through zero-adjacency cells
RECURSIVE ZeroRegion(_, _)
ZeroRegion(b, z) ==
    LET more == {n \in Cells(b.w, b.h) :
                    b.adj[n] = 0 /\ \E c \in z : n \in Neighbors(b.w, b.h, c)}
    IN IF more \subseteq z THEN z ELSE ZeroRegion(b, z \cup more)

\* the zero region of cell together with the neighbours of its cells
CascadeRegion(b, cell) ==
    LET z == ZeroRegion(b, {cell})
    IN z \cup UNION {Neighbors(b.w, b.h, c) : c \in z}

\* C13: a Reveal of a Hidden cell that is no mine and has adjacentMineCount 0
\* leaves every cell of its cascade region Revealed (the zero-adjacency
\* cells connected to it and their neighbours, none of them a mine) and
\* changes the state of no cell outside the region and of no mine.
C13_Cascade ==
    [][(/\ out'.op = "Reveal" /\ ~brd.mine[inp'[1]]
        /\ brd.state[inp'[1]] = "Hidden" /\ brd.adj[inp'[1]] = 0) =>
          \A region \in {CascadeRegion(brd, inp'[1])} :
             /\ \A c \in region : ~brd.mine[c] /\ brd'.state[c] = "Revealed"
             /\ \A c \in Cells(brd.w, brd.h) \ region : brd'.state[c] = brd.state[c]
             /\ \A c \in Cells(brd.w, brd.h) : brd.mine[c] => brd'.state[c] = brd.state[c]
             /\ brd'.mine = brd.mine /\ brd'.adj = brd.adj]_vars

\* a cascade on a 4 x 2 board has stopped at cells with a mine next to them:
\* just its region is revealed, and a cell that is no mine is still hidden
C13_Witness ==
    /\ out.op = "Reveal" /\ brd.w = 4 /\ brd.h = 2
    /\ ~brd.mine[inp[1]] /\ brd.adj[inp[1]] = 0
    /\ \A c \in Cells(brd.w, brd.h) :
          brd.state[c] = "Revealed" <=> c \in CascadeRegion(brd, inp[1])
    /\ \E c \in Cells(brd.w, brd.h) : brd.state[c] = "Revealed" /\ brd.adj[c] > 0
    /\ \E c \in Cells(brd.w, brd.h) : ~brd.mine[c] /\ brd.state[c] = "Hidden"

\* every cell of b that is no mine is Revealed
AllSafeRevealed(b) == \A c \in Cells(b.w, b.h) : b.mine[c] \/ b.state[c] = "Revealed"

\* a mine of b is Revealed
MineRevealed(b) == \E c \in Cells(b.w, b.h) : b.mine[c] /\ b.state[c] = "Revealed"

C15_TokenLetterDigit ==
    [][(out'.op = "filter" /\ out'.fwd) =>
          /\ Len(inp'[2]) = 2
          /\ Cardinality({i \in 1..Len(inp'[2]) : inp'[2][i] \in AlphaChars}) = 1
          /\ Cardinality({i \in 1..Len(inp'[2]) : inp'[2][i] \in DigitChars}) = 1]_vars

\* C16: the high score of a record changes only in the step of the move that
\* completes its board, which raises it and sets the board to null; while the
\* board is null a move token, mines_repeat and mines_top leave the record as
\* it is, and only mines_play gives the record a board again.
C16_RewardedOnce ==
    [][\A g \in games : \A g2 \in games' :
          (g2.addr = g.addr /\ g2.gid = g.gid) =>
              /\ g2.score # g.score =>
                    /\ out'.op = "filter" /\ out'.kind = "won"
                    /\ g.board # Null /\ g2.board = Null /\ g2.score > g.score
              /\ (g.board = Null /\ out'.op \in {"filter", "mines_repeat", "mines_top"}) =>
                    g2 = g
              /\ (g.board = Null /\ g2.board # Null) => out'.op = "mines_play"]_vars

\* /mines_repeat is sent after a game was won
C16_Witness ==
    /\ out.op = "mines_repeat" /\ out.kind = "noactive"
    /\ \E g \in games : g.board = Null /\ g.score > 0

\* C17: mines_repeat changes no persisted state; its reply is the current
\* render of the board of the sender's record when that board is not null and
\* the no-active-game prompt when the sender has no record or a null board;
\* repeated at once by the same sender it gives the same reply.
C17_RepeatReadOnly ==
    [][out'.op = "mines_repeat" =>
          /\ UNCHANGED persisted
          /\ IF \E g \in games : g.addr = inp'[1] /\ g.board # Null
             THEN \E g \in games :
                     /\ g.addr = inp'[1]
                     /\ out'.kind = "board"
                     /\ out'.render = RenderCurrent(Board(g.board))
             ELSE out'.kind = "noactive" /\ out'.render = <<>>
          /\ (out.op = "mines_repeat" /\ inp = inp') => out' = out]_vars

\* the board is sent again in the middle of a game
C17_Witness ==
    /\ out.op = "mines_repeat" /\ out.kind = "board"
    /\ \E g \in games : g.addr = inp[1] /\ SomeRevealed(g)
    /\ \E i \in 1..Len(out.render) : out.render[i] >= 0

\* C18: for some score-descending listing of the records, every line mines_top
\* prints is <<k, nick, score>> of the record at 1-based position k, the lines
\* are in increasing position (no record twice), the first min(limit, n) are
\* the positions 1..min(limit, n), and the positions printed are just those
\* together with, for a requester at 0-based position p >= limit, p + 1, p
\* when p > limit, and p + 2 when there is such a record.
C18_TopLayout ==
    [][out'.op = "mines_top" =>
          \E lst \in get_games(games) :
             LET n == Len(lst)
                 top == Min(limit, n)
                 lines == out'.lines
                 p == IF \E i \in 1..n : lst[i].addr = inp'[1]
                      THEN (CHOOSE i \in 1..n : lst[i].addr = inp'[1]) - 1
                      ELSE -1
                 around == IF p >= limit
                           THEN {p + 1} \cup (IF p > limit THEN {p} ELSE {})
                                        \cup (IF p + 2 <= n THEN {p + 2} ELSE {})
                           ELSE {}
             IN /\ \A j \in 1..Len(lines) :
                      /\ lines[j][1] \in 1..n
                      /\ lines[j][2] = NickOf(nicks, lst[lines[j][1]].addr)
                      /\ lines[j][3] = lst[lines[j][1]].score
                /\ Len(lines) >= top /\ \A j \in 1..top : lines[j][1] = j
                /\ \A i, j \in 1..Len(lines) : i < j => lines[i][1] < lines[j][1]
                /\ {lines[j][1] : j \in 1..Len(lines)} = (1..top) \cup around]_vars

\* the requester is two places below the top and not the last: the top, the
\* predecessor, the requester and the successor are printed
C18_Witness ==
    /\ out.op = "mines_top" /\ Len(out.lines) = limit + 3
    /\ out.lines[limit + 2][1] = limit + 2
    /\ out.lines[limit + 2][2] = NickOf(nicks, inp[1])

\* C19: deltabot_member_removed deletes the record of the chat, and nothing
\* else, exactly when the removed contact is the bot or the record's player,
\* and the bot leaves the chat just when it deletes and the contact is not
\* the bot itself; every other removal changes no persisted state.  A move
\* token in a chat without a record is ignored, and mines_play by a player
\* without a record puts the new record in a group chat that no record has
\* or ever had.
C19_Teardown ==
    [][/\ out'.op = "member_removed" =>
             IF \E g \in games : g.gid = inp'[1] /\ inp'[2] \in {Bot, g.addr}
             THEN /\ games' = {g \in games : g.gid # inp'[1]}
                  /\ games' # games /\ nicks' = nicks /\ nextGid' = nextGid
                  /\ out'.kind = IF inp'[2] # Bot THEN "left" ELSE "deleted"
             ELSE UNCHANGED persisted /\ out'.kind = "none"
       /\ (out'.op = "filter" /\ \A g \in games : g.gid # inp'[1]) =>
             (UNCHANGED persisted /\ out'.kind = "none" /\ ~out'.fwd)
       /\ (/\ out'.op = "mines_play" /\ get_nick(nicks, inp'[1]) # {}
           /\ get_game_by_addr(games, inp'[1]) = {}) =>
             \E g2 \in games' :
                /\ g2.addr = inp'[1] /\ g2.gid = nextGid /\ games' = games \cup {g2}
                /\ IsFresh(g2)
       /\ nextGid' >= nextGid
       /\ \A g \in games' : g.gid < nextGid']_vars

\* a player whose first group was torn down has started a game in a new one
C19_Witness ==
    /\ out.op = "mines_play" /\ out.prefix = "hello"
    /\ \E g \in games : g.addr = inp[1] /\ g.gid > 1 /\ games = {g}

\* C20: no two rows of the nick table have the same nick or the same address,
\* and a mines_nick request whose normalized nick some address holds (the
\* sender's own included) is answered "already taken" and changes no nick.
C20_NickUnique ==
    [][/\ \A n1, n2 \in nicks' :
             (n1.nick = n2.nick \/ n1.addr = n2.addr) => n1 = n2
       /\ (/\ out'.op = "mines_nick" /\ inp'[2] # <<>>
           /\ \E n \in nicks : n.nick = join(split(inp'[2], <<>>))) =>
             (out'.kind = "nick_taken" /\ nicks' = nicks)]_vars

\* a player with a nick of their own asks for the nick of the other player
C20_Witness ==
    /\ out.op = "mines_nick" /\ out.kind = "nick_taken"
    /\ get_nick(nicks, inp[1]) # {}
    /\ \E n \in nicks : n.nick = join(split(inp[2], <<>>)) /\ n.addr # inp[1]

====
